---- MODULE Spec2Model ----
(***************************************************************************)
(* LOD model loading (loadGLTF) and the LOD update manager of flow-js,     *)
(* src/library/core/loader.js, and FlowJS.loadModel, src/library/index.js. *)
(*                                                                         *)
(* One step of the model is one task of the JavaScript event loop: a call  *)
(* of the exported API by the application, or the completion of one        *)
(* GLTFLoader.loadAsync fetch together with the promise continuations      *)
(* (microtasks) it triggers.                                               *)
(***************************************************************************)
EXTENDS Integers, Sequences, FiniteSets, TLC

\* ------------------------------------------------------------------ bounds
\* number of loadGLTF calls the application makes
MaxLoads == 2
\* number of requestAnimationFrame calls made
MaxFrames == 4

\* the onProgress calls a loader makes during one run of the benchmark
MaxProgress == 3

LoadIds == 1..MaxLoads

\* the positions on the axis the camera is placed at when update is called: for
\* an object at 0 the distances 5, 15 and 25, for one at 5 the distances 0, 10
\* and 20
CameraPositions == {5, 15, 25}

\* ------------------------------------------------------- program constants
\* userData.currentLevel before updateManager.add has stamped the object
\* (a fresh Object3D has userData = {}, so the property reads undefined)
Undefined == -2
\* the sentinel written by updateManager.add
NoLevel == -1

\* DEFAULT_LOD_LEVELS, the distance of each entry
DEFAULT_LOD_LEVELS == <<0, 10, 20>>

\* ----------------------------------------------------------------- urls
\* A url is [stem, lod, ext]: stem ++ "_LOD<lod>" ++ ext, the "_LOD<lod>"
\* part absent when lod = -1.
NoName == [stem |-> "", lod |-> -1, ext |-> ""]
ShipLod0Url == [stem |-> "./public/ship", lod |-> 0, ext |-> ".glb"]
ShipBase == [stem |-> "./public/ship", lod |-> -1, ext |-> ""]
JetUrl == [stem |-> "/jet", lod |-> -1, ext |-> ".glb"]

\* url.replace(/_LOD\d+\.glb$/, ""): the suffix is stripped when present,
\* the url is left as it is otherwise
StripLodSuffix(url) ==
    IF url.lod >= 0 /\ url.ext = ".glb"
    THEN [stem |-> url.stem, lod |-> -1, ext |-> ""]
    ELSE url

\* lodBaseName || url.replace(...): null and "" are falsy
BaseName(o) ==
    IF o.lodBaseName # NoName THEN o.lodBaseName ELSE StripLodSuffix(o.url)

\* A file name is [base, lod, ext]: the name `base` followed by "_LOD<lod>" and
\* ext, or `base` alone when lod = -1.
\* lodLevels.map((_, i) => `${baseName}_LOD${i}.glb`), i counted from 0
LodFiles(o) ==
    [i \in 1..Len(o.lodLevels) |-> [base |-> BaseName(o), lod |-> i - 1, ext |-> ".glb"]]

\* as a loader that went through the tier names on every path would
FilesOfTiers(o) == LodFiles(o)

\* the arguments of the loader.loadAsync calls of one loadGLTF call, in the
\* order they are issued: url itself (line 164), or every tier's file (line 178)
Files(o) ==
    IF o.lod THEN LodFiles(o) ELSE <<[base |-> o.url, lod |-> -1, ext |-> ""]>>

\* ------------------------------------------------------------- option bags
\* The calls of loadGLTF the application makes, each named; a load remembers the
\* name of its call.  progressiveLOD is "default" when the options do not
\* mention it.
CallNames == {"jet", "ship", "loadAll", "empty"}

OptionBags ==
    \* example.js: loadGLTF('/jet.glb')
    "jet" :> [url |-> JetUrl, lod |-> FALSE, progressiveLOD |-> "default",
              lodBaseName |-> NoName, lodLevels |-> DEFAULT_LOD_LEVELS,
              onLoad |-> FALSE, onProgress |-> FALSE, scale |-> 1, position |-> 0]
    \* three_original.js: loadGLTF('./public/ship_LOD0.glb',
    \*     {lod, lodBaseName, onLoad, onProgress, position})
    @@ "ship" :> [url |-> ShipLod0Url, lod |-> TRUE, progressiveLOD |-> "default",
                  lodBaseName |-> ShipBase, lodLevels |-> DEFAULT_LOD_LEVELS,
                  onLoad |-> TRUE, onProgress |-> TRUE, scale |-> 1, position |-> 0]
    \* a load-all call with two tiers given in descending order, placed at 5
    @@ "loadAll" :> [url |-> ShipLod0Url, lod |-> TRUE, progressiveLOD |-> "off",
                     lodBaseName |-> NoName, lodLevels |-> <<20, 10>>,
                     onLoad |-> FALSE, onProgress |-> FALSE, scale |-> 1, position |-> 5]
    \* an empty level set
    @@ "empty" :> [url |-> ShipLod0Url, lod |-> TRUE, progressiveLOD |-> "default",
                   lodBaseName |-> NoName, lodLevels |-> <<>>,
                   onLoad |-> TRUE, onProgress |-> FALSE, scale |-> 1, position |-> 0]
    \* a LOD load of a url that carries no tier suffix, with no lodBaseName
    @@ "jetLod" :> [url |-> JetUrl, lod |-> TRUE, progressiveLOD |-> "default",
                    lodBaseName |-> NoName, lodLevels |-> <<0, 10>>,
                    onLoad |-> TRUE, onProgress |-> TRUE, scale |-> 1, position |-> 0]
    \* a simple load asked to scale the model by 0
    @@ "flat" :> [url |-> JetUrl, lod |-> FALSE, progressiveLOD |-> "default",
                  lodBaseName |-> NoName, lodLevels |-> DEFAULT_LOD_LEVELS,
                  onLoad |-> FALSE, onProgress |-> FALSE, scale |-> 0, position |-> 0]
    \* no call made yet
    @@ "none" :> [url |-> NoName, lod |-> FALSE, progressiveLOD |-> "default",
                  lodBaseName |-> NoName, lodLevels |-> <<>>,
                  onLoad |-> FALSE, onProgress |-> FALSE, scale |-> 1, position |-> 0]

\* the options of a load
Options(ld) == OptionBags[ld.call]

\* ------------------------------------------------------------------ state
VARIABLES
    loads,      \* per loadGLTF call: its options, fetches, returned promise, callback calls
    objs,       \* per loadGLTF call: the object it returned (a THREE.LOD or a Group)
    lods,       \* updateManager.lods, a Set, kept in insertion order
    events,     \* "LOD SWITCHED!" lines logged by the most recent call
    lastCall,   \* the most recent call: its name, argument and outcome
    flow,       \* the FlowJS instance: its scene, its model manager, its loadModel calls
    bench       \* a runProgressiveOnce call of the benchmark: its closure and its timer

vars == <<loads, objs, lods, events, lastCall, flow, bench>>

NoObject ==
    [kind |-> "none", levels |-> <<>>, currentLevel |-> 0,
     userDataCurrentLevel |-> Undefined, position |-> 0]

\* ------------------------------------------------------------- THREE.LOD
Abs(x) == IF x < 0 THEN -x ELSE x

\* new THREE.LOD(): no levels, _currentLevel = 0, userData = {}
NewLOD ==
    [kind |-> "LOD", levels |-> <<>>, currentLevel |-> 0,
     userDataCurrentLevel |-> Undefined, position |-> 0]

\* as a push onto the end of the levels array would
InsertAtEnd(levels, distance, l) == Len(levels) + 1

\* the index (from 1) before which addLevel splices a level of this distance:
\* the first level with a greater distance, else the end
RECURSIVE InsertAt(_, _, _)
InsertAt(levels, distance, l) ==
    IF l <= Len(levels) /\ ~(distance < levels[l].distance)
    THEN InsertAt(levels, distance, l + 1)
    ELSE l

\* LOD.addLevel(object, distance): distance = Math.abs(distance), spliced in
\* ascending order of distance; the object keeps visible = true
addLevel(lod, object, distance) ==
    LET d == Abs(distance)
        l == InsertAt(lod.levels, d, 1)
        entry == [distance |-> d, object |-> object, visible |-> TRUE]
    IN  [lod EXCEPT !.levels =
            SubSeq(lod.levels, 1, l - 1) \o <<entry>> \o SubSeq(lod.levels, l, Len(lod.levels))]

\* the loop of LOD.update with > in place of >=
RECURSIVE ScanLevelsStrict(_, _, _)
ScanLevelsStrict(levels, distance, i) ==
    IF i < Len(levels) /\ distance > levels[i + 1].distance
    THEN ScanLevelsStrict(levels, distance, i + 1)
    ELSE i

\* the loop of LOD.update: i runs from 1 (0-based) while distance >= levels[i].distance
RECURSIVE ScanLevels(_, _, _)
ScanLevels(levels, distance, i) ==
    IF i < Len(levels) /\ distance >= levels[i + 1].distance
    THEN ScanLevels(levels, distance, i + 1)
    ELSE i

\* as an update that only recorded the level, without showing and hiding, would
LODUpdateKeepsVisible(lod, distance) ==
    IF Len(lod.levels) > 1
    THEN [lod EXCEPT !.currentLevel = ScanLevels(lod.levels, distance, 1) - 1]
    ELSE lod

\* LOD.update(camera): nothing unless there are at least two levels; otherwise
\* _currentLevel = i - 1 and exactly that level's object is visible
LODUpdate(lod, distance) ==
    IF Len(lod.levels) > 1
    THEN LET i == ScanLevels(lod.levels, distance, 1)
         IN  [lod EXCEPT !.currentLevel = i - 1,
                         !.levels = [j \in 1..Len(lod.levels) |->
                                        [lod.levels[j] EXCEPT !.visible = (j = i)]]]
    ELSE lod

\* as a getter that always reported the first level would
getFirstLevel(lod) == 0

\* LOD.getCurrentLevel()
getCurrentLevel(lod) == lod.currentLevel

\* camera.position.distanceTo(lod.position) on the axis
Distance(cam, lod) == Abs(cam - lod.position)

\* ------------------------------------------------------------- loadGLTF
\* as Promise.allSettled would: resolved once every fetch has settled
PromiseAllSettled(fetch) ==
    IF \A i \in 1..Len(fetch) : fetch[i] # "pending" THEN "resolved" ELSE "pending"

\* as awaiting only the last fetch would
PromiseLast(fetch) ==
    IF fetch = <<>> \/ fetch[Len(fetch)] = "ok" THEN "resolved"
    ELSE IF fetch[Len(fetch)] = "failed" THEN "rejected"
    ELSE "pending"

\* Promise.all over the fetches: rejected as soon as one has failed, resolved
\* once every one has succeeded, pending otherwise
PromiseAll(fetch) ==
    IF \E i \in 1..Len(fetch) : fetch[i] = "failed" THEN "rejected"
    ELSE IF \A i \in 1..Len(fetch) : fetch[i] = "ok" THEN "resolved"
    ELSE "pending"

\* as a loader that named every tier after one module-wide base name would
SceneOfShip(o, i) == [base |-> ShipBase, lod |-> i - 1, ext |-> ".glb"]

\* gltfs[i].scene (i counted from 1): the scene of the i-th entry of
\* Promise.all's result, which is what the fetch of the i-th file produced; a
\* scene is named by the file it was fetched from
Scene(o, i) == LodFiles(o)[i]

\* gltfs.forEach((gltf, i) => lodObject.addLevel(gltf.scene, lodLevels[i].distance)),
\* from entry i on
RECURSIVE AddLevels(_, _, _)
AddLevels(lod, o, i) ==
    IF i > Len(o.lodLevels) THEN lod
    ELSE AddLevels(addLevel(lod, Scene(o, i), o.lodLevels[i]), o, i + 1)

\* lines 180-185: the LOD object with one level per tier, then the transform
BuildLodObject(o) ==
    [AddLevels(NewLOD, o, 1) EXCEPT !.position = o.position]

\* lines 165-168: gltf.scene of the single asset, a Group, with the transform
BuildModel(o) ==
    [kind |-> "Group", levels |-> <<>>, currentLevel |-> 0,
     userDataCurrentLevel |-> Undefined, position |-> o.position]

\* the promise the async function is suspended on, given the fetches
Awaited(o, fetch) ==
    IF o.lod THEN PromiseAll(fetch) ELSE
    IF fetch[1] = "ok" THEN "resolved" ELSE IF fetch[1] = "failed" THEN "rejected" ELSE "pending"

\* The load after its fetches have become `fetch`: while the returned promise
\* is pending, the function resumes when the awaited promise settles; it
\* builds the object, calls onLoad and resolves, or it rejects.
Resume(ld, fetch) ==
    LET a == Awaited(Options(ld), fetch)
    IN  IF ld.state # "pending" THEN [ld EXCEPT !.fetch = fetch]
        ELSE [ld EXCEPT !.fetch = fetch,
                        !.state = a,
                        !.onLoadCalls = IF a = "resolved" /\ Options(ld).onLoad THEN @ + 1 ELSE @]

ResumeObject(ld, fetch, obj) ==
    IF ld.state = "pending" /\ Awaited(Options(ld), fetch) = "resolved"
    THEN IF Options(ld).lod THEN BuildLodObject(Options(ld)) ELSE BuildModel(Options(ld))
    ELSE obj

\* the record of a call: node is the argument of add and remove (0 otherwise),
\* camera the position passed to update (0 otherwise), evaluated the objects
\* whose level an update call has recomputed, repeat whether an update call
\* directly follows an update call with the camera at the same position
Call(op, node, threw, evaluated, cam, repeat) ==
    [op |-> op, node |-> node, threw |-> threw, evaluated |-> evaluated,
     camera |-> cam, repeat |-> repeat]

\* the load of call c up to its await: a loadAsync issued for every file
Started(c) ==
    [state |-> "pending", call |-> c,
     fetch |-> [i \in 1..Len(Files(OptionBags[c])) |-> "pending"],
     onLoadCalls |-> 0, onProgressCalls |-> 0]

\* loadGLTF(url, options): every loadAsync is issued in the call itself; with an
\* empty lodLevels Promise.all([]) is already resolved.  Calls are numbered in
\* the order they are made.
loadGLTF(l, c) ==
    /\ loads[l].state = "idle"
    /\ \A k \in LoadIds : k < l => loads[k].state # "idle"
    /\ loads' = [loads EXCEPT ![l] = Resume(Started(c), Started(c).fetch)]
    /\ objs' = [objs EXCEPT ![l] = ResumeObject(Started(c), Started(c).fetch, @)]
    /\ events' = <<>>
    /\ lastCall' = Call("loadGLTF", 0, FALSE, {}, 0, FALSE)
    /\ UNCHANGED <<lods, flow, bench>>

\* one loader.loadAsync fetch of load l completes, with success or with an error
FetchDone(l, i, outcome) ==
    /\ loads[l].state # "idle"
    /\ i \in 1..Len(loads[l].fetch)
    /\ loads[l].fetch[i] = "pending"
    /\ LET fetch == [loads[l].fetch EXCEPT ![i] = outcome]
       IN  /\ loads' = [loads EXCEPT ![l] = Resume(@, fetch)]
           /\ objs' = [objs EXCEPT ![l] = ResumeObject(loads[l], fetch, @)]
    /\ events' = <<>>
    /\ lastCall' = Call("fetchDone", 0, FALSE, {}, 0, FALSE)
    /\ UNCHANGED <<lods, flow, bench>>

\* --------------------------------------------------------- updateManager
InSeq(s, x) == \E i \in 1..Len(s) : s[i] = x

\* as Array.prototype.push would
ArrayPush(s, x) == Append(s, x)

\* Set.prototype.add: appended unless already a member
SetAdd(s, x) == IF InSeq(s, x) THEN s ELSE Append(s, x)

\* as a remove that left the registry alone would
SetKeep(s, x) == s

\* Set.prototype.delete: removed if a member, the others keep their order
SetDelete(s, x) == SelectSeq(s, LAMBDA y : y # x)

\* updateManager.add(lod), called by the application with an object it got
\* from a load
add(n) ==
    /\ objs[n].kind # "none"
    /\ lods' = SetAdd(lods, n)
    /\ objs' = [objs EXCEPT ![n].userDataCurrentLevel = NoLevel]
    /\ events' = <<>>
    /\ lastCall' = Call("add", n, FALSE, {}, 0, FALSE)
    /\ UNCHANGED <<loads, flow, bench>>

\* updateManager.remove(lod)
remove(n) ==
    /\ objs[n].kind # "none"
    /\ lods' = SetDelete(lods, n)
    /\ events' = <<>>
    /\ lastCall' = Call("remove", n, FALSE, {}, 0, FALSE)
    /\ UNCHANGED <<loads, objs, flow, bench>>

\* as a loop that never lets an object's failure out would
NeverThrows(obj) == FALSE

\* lod.update(camera) on an object without an update method (a Group) throws a
\* TypeError
UpdateThrows(obj) == obj.kind # "LOD"

\* as the loop without line 60 would
StampForgotten(lod, current) == lod

\* lod.userData.currentLevel = currentLevel
Stamp(lod, current) == [lod EXCEPT !.userDataCurrentLevel = current]

\* The for-of loop of updateManager.update from position i of the registry on;
\* an exception ends the call.
RECURSIVE UpdateLoop(_, _, _, _, _)
UpdateLoop(i, os, ev, done, cam) ==
    IF i > Len(lods) THEN [objs |-> os, events |-> ev, threw |-> FALSE, evaluated |-> done]
    ELSE LET n == lods[i]
             prevLevel == os[n].userDataCurrentLevel
         IN  IF UpdateThrows(os[n])
             THEN [objs |-> os, events |-> ev, threw |-> TRUE, evaluated |-> done]
             ELSE LET updated == LODUpdate(os[n], Distance(cam, os[n]))
                      current == getCurrentLevel(updated)
                  IN  IF current # prevLevel
                      THEN UpdateLoop(i + 1,
                               [os EXCEPT ![n] = Stamp(updated, current)],
                               Append(ev, [node |-> n, prev |-> prevLevel, new |-> current]),
                               done \cup {n}, cam)
                      ELSE UpdateLoop(i + 1, [os EXCEPT ![n] = updated], ev, done \cup {n}, cam)

\* updateManager.update(camera), called from the animation loop with the camera
\* at position cam
update(cam) ==
    /\ \E r \in {UpdateLoop(1, objs, <<>>, {}, cam)} :
           /\ objs' = r.objs
           /\ events' = r.events
           /\ lastCall' = Call("update", 0, r.threw, r.evaluated, cam,
                                lastCall.op = "update" /\ lastCall.camera = cam)
    /\ UNCHANGED <<loads, lods, flow, bench>>

\* ---------------------------------------------------------------- FlowJS
\* src/library/index.js.  The model manager's Map is keyed by url; an object is
\* named by the number of the call that loaded it, 0 is no object.
Urls == {JetUrl, ShipLod0Url}

\* the calls made in a frame of an animation loop, in order; NoFrame before
\* any frame
NoFrame == [loop |-> "none", calls |-> <<>>]

\* the keys cameras are stored under, the cameras (1 is the perspective camera
\* the constructor creates), and null as a camera
CameraKeys == {"default", "imported"}
Cameras == {1, 2, 3}
NoCamera == 0

\* new FlowJS(): nothing loaded into the scene, an empty models Map, no
\* object's geometry and materials disposed of, no loadModel call made, the
\* animation loop not running (animationLoop = null, written 0; the handles
\* requestAnimationFrame returns are 1, 2, ...), no frame callback pending,
\* the camera manager holding the default camera, which is the active one
NewFlowJS ==
    [scene |-> {},
     models |-> [u \in Urls |-> 0],
     disposed |-> {},
     isRunning |-> FALSE,
     animationLoop |-> 0,
     scheduled |-> {},
     handles |-> 0,
     lastFrame |-> NoFrame,
     cameras |-> [k \in CameraKeys |-> IF k = "default" THEN 1 ELSE NoCamera],
     activeCamera |-> 1,
     call |-> [l \in LoadIds |-> "none"],
     promise |-> [l \in LoadIds |-> "idle"],
     result |-> [l \in LoadIds |-> 0]]

\* Validator.validateModelOptions(options), the errors it returns: every
\* component of scale has to be a positive number (position, rotation and url
\* are well-formed in every call made here)
ValidateModelOptions(o) ==
    IF o.scale > 0 THEN <<>> ELSE <<"Model scale values must be positive numbers">>

\* as the callback-style loadGLTF of the README, which resolved with model,
\* animations and camera, would
ResultWithAnimations(o) == {"model", "animations", "camera", "gltf"}

\* the properties of the object loadGLTF resolves with (lines 171 and 189)
ResultFields(o) == IF o.lod THEN {"model", "gltfs"} ELSE {"model", "gltf"}

\* loadModel from `await loadGLTF(url, options)` on, the load having become ld:
\* a rejected load is rethrown from the catch block; after a resolved one the
\* model is added to the scene and to the model manager, and then
\* result.animations.length is read, which throws a TypeError when the result
\* has no animations property.
LoadModelResume(l, ld, f) ==
    IF f.promise[l] # "pending" \/ ld.state = "pending" THEN f
    ELSE IF ld.state = "rejected" THEN [f EXCEPT !.promise[l] = "rejected"]
    ELSE LET added == [f EXCEPT !.scene = @ \cup {l},
                                !.models[Options(ld).url] = l]
         IN  IF "animations" \in ResultFields(Options(ld))
             THEN [added EXCEPT !.promise[l] = "resolved", !.result[l] = l]
             ELSE [added EXCEPT !.promise[l] = "rejected"]

\* FlowJS.loadModel(url, options): failed validation throws before the try
\* block; otherwise loadGLTF is called and awaited
loadModel(l, c) ==
    /\ flow.promise[l] = "idle"
    /\ \A k \in LoadIds : k < l => flow.promise[k] # "idle"
    /\ IF ValidateModelOptions(OptionBags[c]) # <<>>
       THEN /\ flow' = [flow EXCEPT !.call[l] = c, !.promise[l] = "rejected"]
            /\ UNCHANGED <<loads, objs>>
       ELSE LET ld == Resume(Started(c), Started(c).fetch)
            IN  /\ loads' = [loads EXCEPT ![l] = ld]
                /\ objs' = [objs EXCEPT ![l] = ResumeObject(Started(c), Started(c).fetch, @)]
                /\ flow' = LoadModelResume(l, ld,
                               [flow EXCEPT !.call[l] = c, !.promise[l] = "pending"])
    /\ events' = <<>>
    /\ lastCall' = Call("loadModel", 0, FALSE, {}, 0, FALSE)
    /\ UNCHANGED <<lods, bench>>

\* one loader.loadAsync fetch of a load made by loadModel completes; loadModel
\* resumes in the same task when this settles its load
loadModelFetchDone(l, i, outcome) ==
    /\ flow.promise[l] # "idle"
    /\ loads[l].state # "idle"
    /\ i \in 1..Len(loads[l].fetch)
    /\ loads[l].fetch[i] = "pending"
    /\ LET fetch == [loads[l].fetch EXCEPT ![i] = outcome]
       IN  /\ loads' = [loads EXCEPT ![l] = Resume(@, fetch)]
           /\ objs' = [objs EXCEPT ![l] = ResumeObject(loads[l], fetch, @)]
           /\ flow' = LoadModelResume(l, Resume(loads[l], fetch), flow)
    /\ events' = <<>>
    /\ lastCall' = Call("fetchDone", 0, FALSE, {}, 0, FALSE)
    /\ UNCHANGED <<lods, bench>>

\* ModelManager.removeModel(key) (src/modules/models.js): the geometry and the
\* materials of the model stored under the key, if there is one, are disposed
\* of and the entry is deleted
RemoveModel(f, u) ==
    [f EXCEPT !.disposed = IF f.models[u] # 0 THEN @ \cup {f.models[u]} ELSE @,
              !.models[u] = 0]

\* flow.modelManager.removeModel(url), called by the application
removeModel(u) ==
    /\ flow' = RemoveModel(flow, u)
    /\ events' = <<>>
    /\ lastCall' = Call("removeModel", flow.models[u], FALSE, {}, 0, FALSE)
    /\ UNCHANGED <<loads, objs, lods, bench>>

\* as a stop that did not cancel the pending frame would
CancelNothing(scheduled, handle) == scheduled

\* cancelAnimationFrame(handle): the callback, if still pending, will not run
CancelAnimationFrame(scheduled, handle) == scheduled \ {handle}

\* the body of FlowJS.stop()
Stop(f) ==
    [f EXCEPT !.scheduled = IF f.animationLoop # 0
                            THEN CancelAnimationFrame(@, f.animationLoop) ELSE @,
              !.animationLoop = 0,
              !.isRunning = FALSE]

\* CameraManager.dispose(): cameras.clear(), activeCamera = null
CameraDispose(f) ==
    [f EXCEPT !.cameras = [k \in CameraKeys |-> NoCamera],
              !.activeCamera = NoCamera]

\* FlowJS.dispose(): stop() ends the animation loop, modelManager.dispose()
\* removes every model of the Map, cameraManager.dispose() every camera,
\* sceneManager.dispose() disposes of the geometry and materials of everything
\* in the scene
dispose ==
    /\ flow' = [CameraDispose(Stop(flow)) EXCEPT
                  !.disposed = @ \cup flow.scene \cup ({flow.models[u] : u \in Urls} \ {0}),
                  !.models = [u \in Urls |-> 0]]
    /\ events' = <<>>
    /\ lastCall' = Call("dispose", 0, FALSE, {}, 0, FALSE)
    /\ UNCHANGED <<loads, objs, lods, bench>>

\* ------------------------------------------------------- animation loops
\* this.animationLoop = requestAnimationFrame(animate)
RequestAnimationFrame(f) ==
    [f EXCEPT !.handles = @ + 1,
              !.scheduled = @ \cup {f.handles + 1},
              !.animationLoop = f.handles + 1]

\* the calls of one frame of the FlowJS loop that matter here (index.js:
\* 322-335): controls.update(), the mixers, renderer.render(scene, camera)
FlowFrame == [loop |-> "FlowJS", calls |-> <<"controls.update", "renderer.render">>]

\* the calls of one frame of the examples' loop (lod-example.js:50-53)
ExampleFrame ==
    [loop |-> "example",
     calls |-> <<"controls.update", "updateManager.update", "renderer.render">>]

\* the closure `animate` of FlowJS.start: nothing when the loop is not running,
\* otherwise the next frame is requested and this one rendered
Animate(f) ==
    IF ~f.isRunning THEN [f EXCEPT !.lastFrame = [loop |-> "FlowJS", calls |-> <<>>]]
    ELSE [RequestAnimationFrame(f) EXCEPT !.lastFrame = FlowFrame]

\* FlowJS.start()
start ==
    /\ flow.handles < MaxFrames
    /\ flow' = IF flow.isRunning THEN flow
               ELSE Animate([flow EXCEPT !.isRunning = TRUE])
    /\ events' = <<>>
    /\ lastCall' = Call("start", 0, FALSE, {}, 0, flow.isRunning)
    /\ UNCHANGED <<loads, objs, lods, bench>>

\* FlowJS.stop()
stop ==
    /\ flow' = Stop(flow)
    /\ events' = <<>>
    /\ lastCall' = Call("stop", 0, FALSE, {}, 0, FALSE)
    /\ UNCHANGED <<loads, objs, lods, bench>>

\* the browser runs the pending frame callback with handle k
frame(k) ==
    /\ k \in flow.scheduled
    /\ flow.handles < MaxFrames
    /\ flow' = Animate([flow EXCEPT !.scheduled = @ \ {k}])
    /\ events' = <<>>
    /\ lastCall' = Call("frame", k, FALSE, {}, 0, FALSE)
    /\ UNCHANGED <<loads, objs, lods, bench>>

\* one frame of the examples' animate(): requestAnimationFrame(animate),
\* controls.update(), updateManager.update(camera), renderer.render(scene, camera)
animate(cam) ==
    /\ flow.handles < MaxFrames
    /\ \E r \in {UpdateLoop(1, objs, <<>>, {}, cam)} :
           /\ objs' = r.objs
           /\ events' = r.events
           /\ lastCall' = Call("animate", 0, r.threw, r.evaluated, cam, FALSE)
           /\ flow' = [flow EXCEPT !.handles = @ + 1,
                                   !.lastFrame = IF r.threw
                                                 THEN [ExampleFrame EXCEPT !.calls = SubSeq(@, 1, 2)]
                                                 ELSE ExampleFrame]
    /\ UNCHANGED <<loads, lods, bench>>

\* --------------------------------------------------------- CameraManager
\* the record of a call of the camera manager: the key passed and the value
\* returned (NoCamera for null and for the methods that return nothing)
CameraCall(op, key, returned) == [op |-> op, key |-> key, returned |-> returned]

\* CameraManager.addCamera(key, camera)
addCamera(key, camera) ==
    /\ flow' = [flow EXCEPT
                  !.cameras[key] = camera,
                  !.activeCamera = IF @ = NoCamera THEN camera ELSE @]
    /\ events' = <<>>
    /\ lastCall' = CameraCall("addCamera", key, NoCamera)
    /\ UNCHANGED <<loads, objs, lods, bench>>

\* CameraManager.getCamera(key): cameras.get(key), undefined without an entry;
\* the callers only test the value, so undefined is written as null
getCamera(f, key) == IF key \in CameraKeys THEN f.cameras[key] ELSE NoCamera

\* CameraManager.setActiveCamera(key)
setActiveCamera(key) ==
    LET camera == getCamera(flow, key)
    IN  /\ flow' = IF camera # NoCamera THEN [flow EXCEPT !.activeCamera = camera]
                   ELSE flow
        /\ events' = <<>>
        /\ lastCall' = CameraCall("setActiveCamera", key, camera)
        /\ UNCHANGED <<loads, objs, lods, bench>>

\* CameraManager.removeCamera(key): before the entry is deleted, activeCamera is
\* set to null if the entry is the active camera (undefined === null is false)
removeCamera(key) ==
    /\ flow' = [flow EXCEPT
                  !.activeCamera = IF /\ key \in CameraKeys
                                      /\ flow.cameras[key] # NoCamera
                                      /\ flow.cameras[key] = @
                                   THEN NoCamera ELSE @,
                  !.cameras = [k \in CameraKeys |-> IF k = key THEN NoCamera ELSE @[k]]]
    /\ events' = <<>>
    /\ lastCall' = CameraCall("removeCamera", key, NoCamera)
    /\ UNCHANGED <<loads, objs, lods, bench>>

\* CameraManager.dispose()
cameraDispose ==
    /\ flow' = CameraDispose(flow)
    /\ events' = <<>>
    /\ lastCall' = CameraCall("dispose", "", NoCamera)
    /\ UNCHANGED <<loads, objs, lods, bench>>

\* ------------------------------------------------------------- benchmark
\* the lengths of LOD_LEVELS the benchmark is configured with (3 as shipped),
\* and the loaders it imports: core/loader.js, or another module exporting a
\* loadGLTF that loads progressively and reports each tier through onProgress
LevelCounts == {1, 2, 3}
Loaders == {"core/loader.js", "progressive"}

\* before runProgressiveOnce is called
NewBenchmark ==
    [levels |-> 0, loader |-> "none", started |-> FALSE,
     resolved |-> FALSE, timeout |-> "none", loadGLTF |-> "idle",
     onLoadCalls |-> 0, highLoadedCount |-> 0,
     resolveCalls |-> 0, resolvedBy |-> "none", settledAt |-> 0]

\* as a benchmark that expected no higher tier would
NoHigherExpected(levels) == 0

\* const expectedHighCount = Math.max(LOD_LEVELS.length - 1, 0)
expectedHighCount(levels) == IF levels - 1 > 0 THEN levels - 1 ELSE 0

\* resolved = true; [clearTimeout(timeoutId);] resolve({initialMs, fullMs}):
\* by records the callback that resolves, settledAt the number of onProgress
\* calls made when the promise is settled by the first resolve call
Resolve(b, by, clear) ==
    [b EXCEPT !.resolved = TRUE,
              !.timeout = IF clear /\ @ = "pending" THEN "cleared" ELSE @,
              !.resolveCalls = @ + 1,
              !.resolvedBy = IF b.resolveCalls = 0 THEN by ELSE @,
              !.settledAt = IF b.resolveCalls = 0 THEN b.highLoadedCount ELSE @]

\* runProgressiveOnce(modelLOD0Path): the executor sets the timer and calls
\* loadGLTF, which returns a pending promise
runProgressiveOnce(n, loader) ==
    /\ ~bench.started
    /\ bench' = [bench EXCEPT !.levels = n, !.loader = loader, !.started = TRUE,
                              !.timeout = "pending", !.loadGLTF = "pending"]
    /\ events' = <<>>
    /\ lastCall' = Call("runProgressiveOnce", 0, FALSE, {}, 0, FALSE)
    /\ UNCHANGED <<loads, objs, lods, flow>>

\* the onLoad callback of the benchmark
BenchOnLoad(b) ==
    LET called == [b EXCEPT !.onLoadCalls = @ + 1]
    IN  IF expectedHighCount(b.levels) = 0 /\ ~b.resolved
        THEN Resolve(called, "onLoad", TRUE)
        ELSE called

\* the onProgress callback of the benchmark
BenchOnProgress(b) ==
    LET counted == [b EXCEPT !.highLoadedCount = @ + 1]
    IN  IF ~b.resolved /\ counted.highLoadedCount >= expectedHighCount(b.levels)
        THEN Resolve(counted, "onProgress", TRUE)
        ELSE counted

\* the loader calls onLoad: core/loader.js does once every file is loaded and
\* then returns, which resolves its promise; a progressive loader does as soon
\* as its first tier is loaded, and goes on loading
onLoad ==
    /\ bench.loadGLTF = "pending"
    /\ bench.onLoadCalls = 0
    /\ bench' = [BenchOnLoad(bench) EXCEPT
                   !.loadGLTF = IF bench.loader = "core/loader.js" THEN "resolved" ELSE @]
    /\ events' = <<>>
    /\ lastCall' = Call("onLoad", 0, FALSE, {}, 0, FALSE)
    /\ UNCHANGED <<loads, objs, lods, flow>>

\* a progressive loader calls onProgress; core/loader.js never does
onProgress ==
    /\ bench.loadGLTF = "pending"
    /\ bench.loader = "progressive"
    /\ bench.highLoadedCount < MaxProgress
    /\ bench' = BenchOnProgress(bench)
    /\ events' = <<>>
    /\ lastCall' = Call("onProgress", 0, FALSE, {}, 0, bench.highLoadedCount > 0)
    /\ UNCHANGED <<loads, objs, lods, flow>>

\* the promise of loadGLTF settles without a callback: a progressive loader is
\* done, or a file has failed and the promise is rejected, which the benchmark
\* does not handle
loadSettled(outcome) ==
    /\ bench.loadGLTF = "pending"
    /\ outcome = "resolved" => bench.loader = "progressive" /\ bench.onLoadCalls > 0
    /\ bench' = [bench EXCEPT !.loadGLTF = outcome]
    /\ events' = <<>>
    /\ lastCall' = Call("loadSettled", 0, outcome = "rejected", {}, 0, FALSE)
    /\ UNCHANGED <<loads, objs, lods, flow>>

\* the safety timer fires after FULL_LOAD_TIMEOUT unless it has been cleared
timeout ==
    /\ bench.timeout = "pending"
    /\ bench' = IF ~bench.resolved
                THEN [Resolve(bench, "timeout", FALSE) EXCEPT !.timeout = "fired"]
                ELSE [bench EXCEPT !.timeout = "fired"]
    /\ events' = <<>>
    /\ lastCall' = Call("timeout", 0, FALSE, {}, 0, FALSE)
    /\ UNCHANGED <<loads, objs, lods, flow>>

\* ---------------------------------------------------------- specification
Init ==
    /\ loads = [l \in LoadIds |->
                  [state |-> "idle", call |-> "none", fetch |-> <<>>,
                   onLoadCalls |-> 0, onProgressCalls |-> 0]]
    /\ objs = [l \in LoadIds |-> NoObject]
    /\ lods = <<>>
    /\ events = <<>>
    /\ lastCall = Call("none", 0, FALSE, {}, 0, FALSE)
    /\ flow = NewFlowJS
    /\ bench = NewBenchmark

Next ==
    \/ \E l \in LoadIds, c \in CallNames : loadGLTF(l, c)
    \/ \E l \in LoadIds, i \in 1..3 : FetchDone(l, i, "ok")
    \/ \E l \in LoadIds, i \in 1..3 : FetchDone(l, i, "failed")
    \/ \E n \in LoadIds : add(n)
    \/ \E n \in LoadIds : remove(n)
    \/ \E c \in CameraPositions : update(c)

Spec == Init /\ [][Next]_vars

\* The loader alone, with two LOD loads of different base names in flight at
\* once: the ship and a LOD load of /jet.glb.
LoaderCalls == {"ship", "jetLod"}

LoaderNext ==
    \/ \E l \in LoadIds, c \in LoaderCalls : loadGLTF(l, c)
    \/ \E l \in LoadIds, i \in 1..3 : FetchDone(l, i, "ok")
    \/ \E l \in LoadIds, i \in 1..3 : FetchDone(l, i, "failed")

LoaderSpec == Init /\ [][LoaderNext]_vars

\* The FlowJS instance loading models: the jet, the ship, and the jet with a
\* scale of 0.
FlowCalls == {"jet", "ship", "flat"}

FlowNext ==
    \/ \E l \in LoadIds, c \in FlowCalls : loadModel(l, c)
    \/ \E l \in LoadIds, i \in 1..3 : loadModelFetchDone(l, i, "ok")
    \/ \E l \in LoadIds, i \in 1..3 : loadModelFetchDone(l, i, "failed")

FlowSpec == Init /\ [][FlowNext]_vars

\* The update manager alone, over the objects of loads that have completed:
\* the loads made, in order, each with every fetch succeeded.
Loaded(c) == Resume(Started(c), [i \in 1..Len(Started(c).fetch) |-> "ok"])

LoadedObject(c) ==
    ResumeObject(Started(c), [i \in 1..Len(Started(c).fetch) |-> "ok"], NoObject)

TrackerInit ==
    \E made \in [LoadIds -> CallNames \cup {"none"}] :
        /\ \A l, k \in LoadIds : (l < k /\ made[l] = "none") => made[k] = "none"
        /\ loads = [l \in LoadIds |->
                      IF made[l] = "none"
                      THEN [state |-> "idle", call |-> "none", fetch |-> <<>>,
                            onLoadCalls |-> 0, onProgressCalls |-> 0]
                      ELSE Loaded(made[l])]
        /\ objs = [l \in LoadIds |->
                      IF made[l] = "none" THEN NoObject ELSE LoadedObject(made[l])]
        /\ lods = <<>>
        /\ events = <<>>
        /\ lastCall = Call(IF \A l \in LoadIds : made[l] = "none" THEN "none"
                           ELSE IF \A l \in LoadIds : made[l] \in {"none", "empty"}
                                THEN "loadGLTF" ELSE "fetchDone",
                           0, FALSE, {}, 0, FALSE)
        /\ flow = NewFlowJS
        /\ bench = NewBenchmark

TrackerNext ==
    \/ \E n \in LoadIds : add(n)
    \/ \E n \in LoadIds : remove(n)
    \/ \E c \in CameraPositions : update(c)

TrackerSpec == TrackerInit /\ [][TrackerNext]_vars

\* A FlowJS instance whose loadModel calls have completed, every fetch
\* succeeded, together with the update manager: the application registers the
\* loaded objects, updates, and disposes of models or of the instance.
RECURSIVE FlowAfter(_, _)
FlowAfter(made, l) ==
    IF l = 0 THEN NewFlowJS
    ELSE IF made[l] = "none" THEN FlowAfter(made, l - 1)
    ELSE LoadModelResume(l, Loaded(made[l]),
             [FlowAfter(made, l - 1) EXCEPT !.call[l] = made[l], !.promise[l] = "pending"])

DisposeCalls == {"ship", "jet"}

DisposeInit ==
    \E made \in [LoadIds -> DisposeCalls \cup {"none"}] :
        /\ \A l, k \in LoadIds : (l < k /\ made[l] = "none") => made[k] = "none"
        /\ loads = [l \in LoadIds |->
                      IF made[l] = "none"
                      THEN [state |-> "idle", call |-> "none", fetch |-> <<>>,
                            onLoadCalls |-> 0, onProgressCalls |-> 0]
                      ELSE Loaded(made[l])]
        /\ objs = [l \in LoadIds |->
                      IF made[l] = "none" THEN NoObject ELSE LoadedObject(made[l])]
        /\ lods = <<>>
        /\ events = <<>>
        /\ lastCall = Call(IF \A l \in LoadIds : made[l] = "none" THEN "none" ELSE "fetchDone",
                           0, FALSE, {}, 0, FALSE)
        /\ flow = FlowAfter(made, MaxLoads)
        /\ bench = NewBenchmark

DisposeNext ==
    \/ \E n \in LoadIds : add(n)
    \/ \E n \in LoadIds : remove(n)
    \/ \E c \in CameraPositions : update(c)
    \/ \E u \in Urls : removeModel(u)
    \/ dispose

DisposeSpec == DisposeInit /\ [][DisposeNext]_vars

\* The animation loops: FlowJS.start, FlowJS.stop and the frames of its loop,
\* and the frames of the examples' loop over the objects of completed loads.
LoopNext ==
    \/ start
    \/ stop
    \/ \E k \in 1..MaxFrames : frame(k)
    \/ \E c \in CameraPositions : animate(c)
    \/ \E n \in LoadIds : add(n)

LoopSpec == TrackerInit /\ [][LoopNext]_vars

\* the keys passed to the camera manager: the stored ones and one never stored
KeysPassed == CameraKeys \cup {"unknown"}

\* the camera manager of a new FlowJS under any sequence of its calls
CameraNext ==
    \/ \E k \in CameraKeys, c \in Cameras : addCamera(k, c)
    \/ \E k \in KeysPassed : setActiveCamera(k)
    \/ \E k \in KeysPassed : removeCamera(k)
    \/ cameraDispose

CameraSpec == Init /\ [][CameraNext]_vars

\* one run of the benchmark, with the loader's callbacks and the timer in any
\* order
BenchNext ==
    \/ \E n \in LevelCounts, loader \in Loaders : runProgressiveOnce(n, loader)
    \/ onLoad
    \/ onProgress
    \/ \E outcome \in {"resolved", "rejected"} : loadSettled(outcome)
    \/ timeout

\* the browser runs a timer that is set and not cleared
BenchSpec == Init /\ [][BenchNext]_vars /\ WF_vars(timeout)

\* ------------------------------------------------------- claims: helpers
\* the calls made so far that asked for LOD loading with at least one tier
LodLoads == {l \in LoadIds : loads[l].state # "idle" /\ Options(loads[l]).lod}
Tiers(l) == Len(Options(loads[l]).lodLevels)
Progressive(l) == Options(loads[l]).progressiveLOD # "off"
Settled(l) == \A i \in 1..Len(loads[l].fetch) : loads[l].fetch[i] # "pending"
Succeeded(l) == {i - 1 : i \in {j \in 1..Len(loads[l].fetch) : loads[l].fetch[j] = "ok"}}
\* the tiers an object has a level for, each named by the number in its file name
LevelObjects(obj) == {obj.levels[j].object.lod : j \in 1..Len(obj.levels)}
\* the files of the loadAsync calls a load has issued, all of them in the call
Issued(l) == Files(Options(loads[l]))
SortedLevels(obj) ==
    \A j \in 1..Len(obj.levels) - 1 : obj.levels[j].distance <= obj.levels[j + 1].distance
Registered == {lods[i] : i \in 1..Len(lods)}
EventsOf(n) == {i \in 1..Len(events) : events[i].node = n}
Max(S) == CHOOSE x \in S : \A y \in S : y <= x

\* ------------------------------------------------------------------- C1
\* C1: a progressive LOD load resolves, with a node holding at least the
\* lowest-detail level, as soon as the fetch of the last tier has succeeded,
\* whatever the state of the other fetches.
C1_ResolvesOnLowestTier ==
    \A l \in LodLoads :
        (Progressive(l) /\ Tiers(l) > 0 /\ loads[l].fetch[Tiers(l)] = "ok")
        => /\ loads[l].state = "resolved"
           /\ Tiers(l) - 1 \in LevelObjects(objs[l])

\* ------------------------------------------------------------------- C2
\* C2: in a progressive LOD load whose lowest-detail fetch succeeded, once all
\* fetches have settled the promise is resolved and the node's levels are
\* exactly the tiers whose fetch succeeded, sorted by ascending distance.
C2_BackgroundFailureTolerated ==
    \A l \in LodLoads :
        (Progressive(l) /\ Tiers(l) > 0 /\ loads[l].fetch[Tiers(l)] = "ok" /\ Settled(l))
        => /\ loads[l].state = "resolved"
           /\ LevelObjects(objs[l]) = Succeeded(l)
           /\ SortedLevels(objs[l])

\* ------------------------------------------------------------------- C3
\* C3: if the fetch of the lowest-detail tier of a LOD load has failed, the
\* promise is rejected, onLoad has not been called, no object exists for the
\* load and none is in the registry.
C3_LowestFailureRejects ==
    \A l \in LodLoads :
        (Tiers(l) > 0 /\ loads[l].fetch[Tiers(l)] = "failed")
        => /\ loads[l].state = "rejected"
           /\ loads[l].onLoadCalls = 0
           /\ objs[l].kind = "none"
           /\ l \notin Registered

C3_Witness ==
    \E l \in LodLoads :
        /\ Tiers(l) = 3
        /\ loads[l].fetch = <<"ok", "ok", "failed">>
        /\ loads[l].state = "rejected"

\* ------------------------------------------------------------------- C4
\* the level an update at distance d has to select among `levels`: the one with
\* the greatest threshold <= d, the first one when d is below every threshold
RightLevel(levels, k, d) ==
    LET T == {levels[j].distance : j \in {i \in 1..Len(levels) : levels[i].distance <= d}}
    IN  /\ k \in 1..Len(levels)
        /\ IF T = {} THEN k = 1 ELSE levels[k].distance = Max(T)

C5_UpdateIdempotent ==
    [][(lastCall'.op = "update" /\ lastCall'.repeat)
        => /\ events' = <<>>
           /\ \A n \in LoadIds :
                objs'[n].userDataCurrentLevel = objs[n].userDataCurrentLevel]_vars

\* the second of two update calls with the camera at the same position has
\* evaluated a node that the first one had switched to a level other than 0
C5_Witness ==
    /\ lastCall.op = "update"
    /\ lastCall.repeat
    /\ \E n \in lastCall.evaluated :
        /\ Len(objs[n].levels) > 1
        /\ objs[n].userDataCurrentLevel = objs[n].currentLevel
        /\ objs[n].currentLevel > 0

\* ------------------------------------------------------------------- C6
\* C6: the registry never holds an object twice; add of a registered object
\* leaves the registry as it is, and remove of an object that is not registered
\* does not throw and leaves the registry as it is.
C6_RegistryIsASet ==
    /\ [](\A i, j \in 1..Len(lods) : lods[i] = lods[j] => i = j)
    /\ [][/\ (lastCall'.op = "add" /\ lastCall'.node \in Registered) => lods' = lods
          /\ (lastCall'.op = "remove" /\ lastCall'.node \notin Registered)
                => (lods' = lods /\ ~lastCall'.threw)]_vars

\* an object is registered, with another one before it, and add has just been
\* called on it again
C6_Witness ==
    /\ lastCall.op = "add"
    /\ Len(lods) = 2
    /\ lastCall.node = lods[1]

\* ------------------------------------------------------------------- C7
\* C7: when the load of ship_LOD0.glb with the default three tiers has resolved
\* with three levels and nothing has been done with the node since, the next
\* update call with the camera nearer than 10 sets the node's
\* userData.currentLevel to 0 and logs exactly one transition for it.
C7_EndToEnd ==
    [][\A l \in LoadIds :
        (/\ lastCall'.op = "update"
         /\ loads[l].call = "ship" /\ loads[l].state = "resolved"
         /\ Len(objs[l].levels) = 3
         /\ Distance(lastCall'.camera, objs[l]) < 10
         /\ \/ objs[l].userDataCurrentLevel = Undefined
            \/ objs[l].userDataCurrentLevel = NoLevel /\ l \in Registered)
        => /\ objs'[l].userDataCurrentLevel = 0
           /\ Cardinality({i \in 1..Len(events') : events'[i].node = l}) = 1]_vars

\* ------------------------------------------------------------------- C8
\* C8: the step in which a LOD load of at least one tier resolves leaves the
\* object it produced in the registry.
C8_LoadRegistersNode ==
    [][\A l \in LoadIds :
        (loads[l].state # "resolved" /\ loads'[l].state = "resolved"
            /\ Options(loads'[l]).lod /\ Options(loads'[l]).lodLevels # <<>>)
        => \E i \in 1..Len(lods') : lods'[i] = l]_vars

\* ------------------------------------------------------------------- C9
\* C9: a LOD load has the fetches of all its tiers issued from the call on; it
\* is resolved only when every fetch has succeeded, with an object holding one
\* level per tier; as soon as one fetch has failed it is rejected and has
\* produced no object.
C9_LoadAllOrNothing ==
    \A l \in LodLoads :
        /\ Len(loads[l].fetch) = Tiers(l)
        /\ loads[l].state = "resolved" =>
              /\ \A i \in 1..Tiers(l) : loads[l].fetch[i] = "ok"
              /\ objs[l].kind = "LOD"
              /\ Len(objs[l].levels) = Tiers(l)
              /\ LevelObjects(objs[l]) = 0..(Tiers(l) - 1)
        /\ loads[l].state # "resolved" => objs[l].kind = "none"
        /\ (\E i \in 1..Tiers(l) : loads[l].fetch[i] = "failed") => loads[l].state = "rejected"

\* a load called with progressiveLOD off has resolved with both its tiers
C9_Witness ==
    \E l \in LodLoads :
        /\ ~Progressive(l)
        /\ loads[l].state = "resolved"
        /\ Len(objs[l].levels) = 2

\* a load called with progressiveLOD off is rejected with its first tier fetched
\* and its last tier failed
C9_WitnessRejected ==
    \E l \in LodLoads :
        /\ ~Progressive(l)
        /\ loads[l].fetch = <<"ok", "failed">>
        /\ loads[l].state = "rejected"

Malformed == {i \in 1..Len(lods) : objs[lods[i]].kind # "LOD"}

C11_OwnNodeOnly ==
    \A l \in LodLoads :
        \A j \in 1..Len(objs[l].levels) :
            LET scene == objs[l].levels[j].object
            IN  /\ InSeq(Issued(l), scene)
                /\ \A k \in LodLoads :
                      BaseName(Options(loads[k])) # BaseName(Options(loads[l]))
                      => ~InSeq(Issued(k), scene)

\* the ship and the LOD load of /jet.glb, called one after the other, have both
\* resolved, the ship with three levels and the jet with two
C11_Witness ==
    \E l, k \in LodLoads :
        /\ loads[l].call = "ship" /\ loads[k].call = "jetLod"
        /\ loads[l].state = "resolved" /\ loads[k].state = "resolved"
        /\ Len(objs[l].levels) = 3 /\ Len(objs[k].levels) = 2
        /\ lastCall.op = "fetchDone"


\* ------------------------------------------------------------------ C12
\* C12: when every fetch of a progressive LOD load called with onProgress has
\* succeeded, onProgress has been called once per tier other than the last.
C12_ProgressPerTier ==
    \A l \in LodLoads :
        (/\ Progressive(l) /\ Options(loads[l]).onProgress
         /\ Tiers(l) > 0
         /\ \A i \in 1..Tiers(l) : loads[l].fetch[i] = "ok")
        => loads[l].onProgressCalls = Tiers(l) - 1

\* ------------------------------------------------------------------ C13
\* C13: a LOD load called with an empty lodLevels has issued no fetch, has
\* produced no object and is rejected.
C13_EmptyLevelSetRejected ==
    \A l \in LodLoads :
        Tiers(l) = 0
        => /\ loads[l].fetch = <<>>
           /\ objs[l].kind = "none"
           /\ loads[l].state = "rejected"

\* ------------------------------------------------------------------ C14
\* the url ends in _LOD<N>.<ext>
HasTierSuffix(url) == url.lod >= 0

\* C14: a LOD load called without lodBaseName on a url that does not end in
\* _LOD<N>.<ext> has issued no fetch and is rejected.
C14_UnderivableBaseRejected ==
    \A l \in LodLoads :
        (Options(loads[l]).lodBaseName = NoName /\ ~HasTierSuffix(Options(loads[l]).url))
        => /\ loads[l].fetch = <<>>
           /\ loads[l].state = "rejected"


\* ------------------------------------------------------------------ C15
\* the calls made so far that did not ask for LOD loading
SimpleLoads == {l \in LoadIds : loads[l].state # "idle" /\ ~Options(loads[l]).lod}

C15_WitnessRejected ==
    /\ lastCall.op = "fetchDone"
    /\ lods # <<>>
    /\ \E l \in SimpleLoads : loads[l].state = "rejected"


\* ------------------------------------------------------------------ C16
\* C16: add called on an object that is already in the registry leaves the
\* registry and the object's userData.currentLevel as they are.
C16_AddIsNoOpWhenRegistered ==
    [][\A n \in LoadIds :
        (lastCall'.op = "add" /\ lastCall'.node = n /\ n \in Registered)
        => /\ lods' = lods
           /\ objs'[n].userDataCurrentLevel = objs[n].userDataCurrentLevel]_vars


\* ------------------------------------------------------------------ C17
\* C17: remove takes its argument out of the registry and changes nothing else:
\* the other registered objects stay registered in their order, and no object's
\* levels, visibility, current level or userData.currentLevel changes; an update
\* call evaluates, and logs transitions for, registered objects only.
C17_RemoveOnlyUnregisters ==
    /\ [][\A n \in LoadIds :
            (lastCall'.op = "remove" /\ lastCall'.node = n)
            => /\ ~InSeq(lods', n)
               /\ lods' = SelectSeq(lods, LAMBDA m : m # n)
               /\ objs' = objs
               /\ ~lastCall'.threw]_vars
    /\ [](lastCall.op = "update" =>
            /\ lastCall.evaluated \subseteq Registered
            /\ \A i \in 1..Len(events) : events[i].node \in Registered)

\* remove has just been called on a registered object that update had switched
\* to a level other than the first, and another object stays registered
C17_Witness ==
    /\ lastCall.op = "remove"
    /\ Len(lods) = 1
    /\ lastCall.node \notin Registered
    /\ objs[lastCall.node].userDataCurrentLevel > 0
    /\ \E j \in 1..Len(objs[lastCall.node].levels) : objs[lastCall.node].levels[j].visible

\* an update call has left alone an object that was registered and evaluated
\* earlier and has been removed since, while evaluating a registered one
C17_WitnessUpdate ==
    /\ lastCall.op = "update"
    /\ lastCall.evaluated # {}
    /\ \E n \in LoadIds \ Registered :
        /\ objs[n].kind = "LOD"
        /\ objs[n].userDataCurrentLevel = 2
        /\ Distance(lastCall.camera, objs[n]) < 10


\* ------------------------------------------------------------------ C19
\* C19: of the fetches of a progressive LOD load for the tiers other than the
\* last, at most one is in flight, and none is in flight before the fetch of
\* the tier preceding it has settled.
C19_BackgroundFetchesSequential ==
    \A l \in LodLoads :
        Progressive(l) =>
            /\ Cardinality({i \in 1..(Tiers(l) - 1) : loads[l].fetch[i] = "pending"}) <= 1
            /\ \A i \in 2..(Tiers(l) - 1) :
                  loads[l].fetch[i] = "pending" => loads[l].fetch[i - 1] # "pending"

\* ------------------------------------------------------------------ C20
\* C20: the levels of every object are in ascending order of distance.
C20_LevelsSorted == \A l \in LoadIds : SortedLevels(objs[l])

\* the load called with the thresholds 20, 10 has resolved: the tier given
\* second is the first level, at 10, and the tier given first the second, at 20
C20_Witness ==
    \E l \in LodLoads :
        /\ Options(loads[l]).lodLevels = <<20, 10>>
        /\ loads[l].state = "resolved"
        /\ [j \in 1..2 |-> objs[l].levels[j].distance] = <<10, 20>>
        /\ [j \in 1..2 |-> objs[l].levels[j].object.lod] = <<1, 0>>


\* ------------------------------------------------------------------ C18
\* the loadModel calls made so far
ModelLoads == {l \in LoadIds : flow.promise[l] # "idle"}

\* C18: a loadModel call whose options pass validation and whose fetches have
\* all succeeded is resolved with the loaded model, which is in the scene and
\* is the model manager's entry under url (unless another call has stored its
\* model under the same url); a call is rejected only when validation has
\* failed or a fetch has.
C18_LoadModelResolves ==
    \A l \in ModelLoads :
        LET o == OptionBags[flow.call[l]]
        IN  /\ (/\ ValidateModelOptions(o) = <<>>
                /\ \A i \in 1..Len(loads[l].fetch) : loads[l].fetch[i] = "ok")
               => /\ flow.promise[l] = "resolved"
                  /\ flow.result[l] = l
                  /\ l \in flow.scene
                  /\ \/ flow.models[o.url] = l
                     \/ \E k \in ModelLoads \ {l} :
                           /\ OptionBags[flow.call[k]].url = o.url
                           /\ flow.models[o.url] = k
            /\ flow.promise[l] = "rejected"
               => \/ ValidateModelOptions(o) # <<>>
                  \/ \E i \in 1..Len(loads[l].fetch) : loads[l].fetch[i] = "failed"


\* ------------------------------------------------------------------ C21
\* the levels of an object that are visible, by their place in the level list
VisibleLevels(obj) == {j \in 1..Len(obj.levels) : obj.levels[j].visible}

C22_LevelIsInserted ==
    (lastCall.op = "update" /\ ~lastCall.threw) =>
        \A n \in Registered :
            LET obj == objs[n]
            IN  /\ \/ obj.userDataCurrentLevel = NoLevel
                   \/ obj.userDataCurrentLevel + 1 \in 1..Len(obj.levels)
                /\ obj.levels = <<>> => obj.userDataCurrentLevel = NoLevel
                /\ (/\ obj.levels # <<>>
                    /\ \A j \in 1..Len(obj.levels) :
                          obj.levels[j].distance > Distance(lastCall.camera, obj))
                   => obj.userDataCurrentLevel = 0

\* the same for the objects that have a level
C22_LevelIsInsertedUnlessEmpty ==
    (lastCall.op = "update" /\ ~lastCall.threw) =>
        \A n \in Registered :
            LET obj == objs[n]
            IN  obj.levels # <<>> =>
                /\ obj.userDataCurrentLevel + 1 \in 1..Len(obj.levels)
                /\ (\A j \in 1..Len(obj.levels) :
                          obj.levels[j].distance > Distance(lastCall.camera, obj))
                   => obj.userDataCurrentLevel = 0


\* ------------------------------------------------------------------ C23
\* the nodes of the transitions logged, in the order they were logged
EventNodes(ev) == [i \in 1..Len(ev) |-> ev[i].node]

\* what an update call has to have done for the objects in S: for each, one
\* transition logged, with its previous level, its new level and the object,
\* exactly when the level selected differs from the level stored before the
\* call; the transitions logged in registry order; the level stored after the
\* call the level selected
TransitionsRight(S, os, os2, ev, reg) ==
    /\ \A i \in 1..Len(ev) : ev[i].node \in S
    /\ \A n \in S :
        LET logged == {i \in 1..Len(ev) : ev[i].node = n}
        IN  /\ Cardinality(logged) =
                  (IF os2[n].currentLevel # os[n].userDataCurrentLevel THEN 1 ELSE 0)
            /\ \A i \in logged :
                  /\ ev[i].prev = os[n].userDataCurrentLevel
                  /\ ev[i].new = os2[n].currentLevel
            /\ os2[n].userDataCurrentLevel = os2[n].currentLevel
    /\ EventNodes(ev) = SelectSeq(reg, LAMBDA n : \E i \in 1..Len(ev) : ev[i].node = n)

C24_OnlyUpdateChangesLevel ==
    [][\A n \in LoadIds :
        (n \in Registered /\ lastCall'.op # "update")
        => objs'[n].userDataCurrentLevel = objs[n].userDataCurrentLevel]_vars

\* the same for the steps that are neither an update call nor an add call on
\* the object itself
C24_OnlyUpdateAndOwnAddChangeLevel ==
    [][\A n \in LoadIds :
        (/\ n \in Registered
         /\ lastCall'.op # "update"
         /\ ~(lastCall'.op = "add" /\ lastCall'.node = n))
        => objs'[n].userDataCurrentLevel = objs[n].userDataCurrentLevel]_vars


\* ------------------------------------------------------------------ C25
\* C25: an object that removeModel or dispose has disposed of is not in the
\* registry, and no update call evaluates it.
C25_DisposedIsUnregistered ==
    /\ flow.disposed \cap Registered = {}
    /\ lastCall.op = "update" => lastCall.evaluated \cap flow.disposed = {}


\* ------------------------------------------------------------------ C26
\* the places of a call in the calls of a frame
Places(calls, name) == {i \in 1..Len(calls) : calls[i] = name}

\* C26: a frame of an animation loop that renders has called
\* updateManager.update exactly once, before renderer.render.
C26_UpdateOncePerFrame ==
    LET calls == flow.lastFrame.calls
    IN  Places(calls, "renderer.render") # {} =>
            /\ Cardinality(Places(calls, "updateManager.update")) = 1
            /\ \A i \in Places(calls, "updateManager.update"),
                  j \in Places(calls, "renderer.render") : i < j

\* the same for the frames of the examples' loop
C26_ExampleUpdatesOncePerFrame ==
    flow.lastFrame.loop = "example" => C26_UpdateOncePerFrame

\* ------------------------------------------------------------------ C27
\* C27: at most one frame callback of the FlowJS loop is pending, exactly one
\* while the loop is running (the one animationLoop names) and none while it is
\* not; start while running changes nothing; a frame callback runs only while
\* the loop is running.
C27_OneFrameScheduled ==
    /\ [](/\ Cardinality(flow.scheduled) <= 1
          /\ flow.isRunning => flow.scheduled = {flow.animationLoop}
          /\ ~flow.isRunning => flow.scheduled = {})
    /\ [][(lastCall'.op = "start" /\ flow.isRunning) => flow' = flow]_vars
    /\ [][lastCall'.op = "frame" => (flow.isRunning /\ flow'.lastFrame = FlowFrame)]_vars

\* start has just been called on a running loop that has rendered from a frame
\* callback, with that callback's successor pending
C27_Witness ==
    /\ lastCall.op = "start"
    /\ lastCall.repeat
    /\ flow.handles >= 2
    /\ flow.scheduled = {flow.animationLoop}

\* stop has just been called on a loop that had rendered, and nothing is pending
C27_WitnessStopped ==
    /\ lastCall.op = "stop"
    /\ flow.lastFrame = FlowFrame
    /\ flow.handles >= 2
    /\ flow.scheduled = {}


\* ------------------------------------------------------------------ C28
\* C28: a rejected loadModel call has left no model of its own in the scene or
\* under its url in the model manager.
C28_RejectedLeavesNothing ==
    \A l \in ModelLoads :
        flow.promise[l] = "rejected"
            => /\ l \notin flow.scene
               /\ flow.models[OptionBags[flow.call[l]].url] # l

\* the same for the calls rejected by validation or by a failed fetch
C28_FailedLoadLeavesNothing ==
    \A l \in ModelLoads :
        (/\ flow.promise[l] = "rejected"
         /\ \/ ValidateModelOptions(OptionBags[flow.call[l]]) # <<>>
            \/ \E i \in 1..Len(loads[l].fetch) : loads[l].fetch[i] = "failed")
            => /\ l \notin flow.scene
               /\ flow.models[OptionBags[flow.call[l]].url] # l


\* ------------------------------------------------------------------ C29
\* the cameras stored in the cameras map
StoredCameras == {flow.cameras[k] : k \in CameraKeys} \ {NoCamera}

\* C29: activeCamera is null or a camera stored in the cameras map.
C29_ActiveCameraIsStored ==
    flow.activeCamera = NoCamera \/ flow.activeCamera \in StoredCameras

\* setActiveCamera with a key that has no camera returns null and leaves
\* activeCamera as it was; with a key that has one it returns that camera and
\* makes it the active one
C29_SetActiveCamera ==
    [][lastCall'.op = "setActiveCamera" =>
          IF getCamera(flow, lastCall'.key) = NoCamera
          THEN lastCall'.returned = NoCamera /\ flow'.activeCamera = flow.activeCamera
          ELSE /\ lastCall'.returned = flow.cameras[lastCall'.key]
               /\ flow'.activeCamera = lastCall'.returned]_vars

\* setActiveCamera has been called with a key never stored while a camera was
\* active
C29_Witness ==
    /\ lastCall.op = "setActiveCamera"
    /\ lastCall.key = "unknown"
    /\ lastCall.returned = NoCamera
    /\ flow.activeCamera # NoCamera


\* ------------------------------------------------------------------ C30
\* C30: the promise of runProgressiveOnce is eventually resolved and resolve is
\* called exactly once; it is resolved from onProgress only once onProgress has
\* been called at least LOD_LEVELS.length - 1 times, from onLoad only with a
\* single level, in both cases with the timer cleared before it fires, and
\* otherwise by the timer, whatever has become of the promise of loadGLTF.
C30_ResolvesExactlyOnce ==
    /\ [](bench.resolveCalls <= 1)
    /\ [](bench.resolvedBy = "onProgress" => bench.settledAt >= bench.levels - 1)
    /\ [](bench.resolvedBy = "onLoad" => bench.levels = 1)
    /\ [](bench.resolvedBy \in {"onLoad", "onProgress"} => bench.timeout = "cleared")
    /\ [](bench.resolvedBy = "timeout" => bench.timeout = "fired")
    /\ [](bench.resolveCalls = 1 => bench.resolved /\ bench.resolvedBy # "none")
    /\ (bench.started ~> bench.resolveCalls = 1)

\* with three levels, the second onProgress call has resolved the promise
C30_Witness ==
    /\ bench.levels = 3
    /\ bench.resolvedBy = "onProgress"
    /\ bench.settledAt = 2
    /\ bench.resolveCalls = 1

\* the promise of core/loader.js's loadGLTF has been rejected and the timer has
\* resolved the promise of the benchmark
C30_WitnessTimeout ==
    /\ bench.loader = "core/loader.js"
    /\ bench.loadGLTF = "rejected"
    /\ bench.resolvedBy = "timeout"
    /\ bench.resolveCalls = 1

\* a single level: onLoad has resolved the promise
C30_WitnessSingleLevel ==
    /\ bench.levels = 1
    /\ bench.resolvedBy = "onLoad"
    /\ bench.timeout = "cleared"


====
